---- MODULE Spec2Model ----
(***************************************************************************)
(* Model of the Strategic AI-nalyst Streamlit application (app.py) and of  *)
(* its analysis helpers (financial_analyzer.py).                           *)
(*                                                                         *)
(* One script run of app.py (lines 106-259) is one action: Streamlit runs  *)
(* the script from top to bottom for every user interaction, and an        *)
(* uncaught exception ends the run at the statement that raised it.        *)
(* The two collaborators (filings search, generative model) are inputs     *)
(* drawn with \E from the responses they can give.                         *)
(*                                                                         *)
(* Python values are records tagged by their type in field t.  A str is a  *)
(* sequence of tokens (words, or characters for the numeric normalizer).   *)
(***************************************************************************)
EXTENDS Integers, Sequences, FiniteSets, TLC

VARIABLES
    analysis_data,   \* st.session_state.analysis_data                (app.py:118-119)
    primary_ticker,  \* value of the sidebar text input               (app.py:124)
    shock_input,     \* st.session_state.shock_input                  (app.py:228)
    filings,         \* filings-search response consumed by the latest run
    lookup,          \* (filing_url, full_text_url) of the latest run (app.py:129)
    discarded,       \* keys the reset of the latest run removed        (app.py:127)
    calls,           \* prompts sent to the model by the latest run, in order
    shown,           \* elements the latest run displayed
    errors,          \* st.error messages of the latest run
    raised,          \* uncaught exception that ended the latest run
    value_str,       \* argument of parse_financial_value             (app.py:82)
    result           \* its return value

vars == <<analysis_data, primary_ticker, shock_input, filings, lookup,
          discarded, calls, shown, errors, raised, value_str, result>>

appVars == <<analysis_data, primary_ticker, shock_input, filings, lookup,
             discarded, calls, shown, errors, raised>>

-----------------------------------------------------------------------------
\* Python values

None == [t |-> "None"]

Str(s) == [t |-> "str", s |-> s]

Number(n) == [t |-> "int", n |-> n]

Dict(m) == [t |-> "dict", m |-> m]

List(items) == [t |-> "list", items |-> items]

EmptyDict == Dict(<<>>)

EmptyList == List(<<>>)

IsDict(v) == v.t = "dict"

\* dict.get(key, default)
Get(d, key, default) == IF key \in DOMAIN d.m THEN d.m[key] ELSE default

\* d[key] = v on the session dictionary
Put(d, key, v) == [k \in DOMAIN d \cup {key} |-> IF k = key THEN v ELSE d[k]]

\* bool(v)
Truthy(v) ==
    CASE v.t = "None" -> FALSE
      [] v.t = "str"  -> v.s # <<>>
      [] v.t = "int"  -> v.n # 0
      [] v.t = "dict" -> DOMAIN v.m # {}
      [] v.t = "list" -> v.items # <<>>

\* iter(v) succeeds
Iterable(v) == v.t \in {"str", "dict", "list"}

\* sub in s, on token sequences
Contains(sub, s) ==
    \E i \in 0..(Len(s) - Len(sub)) : \A j \in 1..Len(sub) : s[i + j] = sub[j]

NoException == [exc |-> "none", at |-> "none"]

Exception(exc, at) == [exc |-> exc, at |-> at]

-----------------------------------------------------------------------------
\* Filings lookup (financial_analyzer.py)

Tickers == {"MSFT", "AAPL"}

DetailLink(ticker) == <<"https://www.sec.gov/Archives/", ticker, "-index.htm">>

DocumentLink(ticker) == <<"https://www.sec.gov/Archives/", ticker, "-10k.htm">>

NoFilingsMessage == <<"No", "10-K", "filings", "found", "for", "this", "ticker.">>

CouldNotFetchMessage(e) ==
    <<"Could", "not", "fetch", "data", "from", "SEC", "EDGAR.", "Error:", e>>

\* What query_api.get_filings(query) can do for a ticker: raise, or return a
\* result set of at most one filing (size "1") whose metadata may or may not
\* expose a document link.
SearchResponses(ticker) ==
    { [k |-> "raise", e |-> "ConnectionError"],
      [k |-> "ok", filings |-> <<>>],
      [k |-> "ok", filings |-> << [linkToFilingDetails |-> DetailLink(ticker),
                                   documentFormatFiles |->
                                       << [documentUrl |-> DocumentLink(ticker)] >>] >>],
      [k |-> "ok", filings |-> << [linkToFilingDetails |-> DetailLink(ticker),
                                   documentFormatFiles |->
                                       << [description |-> "10-K"] >>] >>],
      [k |-> "ok", filings |-> << [linkToFilingDetails |-> DetailLink(ticker),
                                   documentFormatFiles |-> <<>>] >>],
      [k |-> "ok", filings |-> << [linkToFilingDetails |-> DetailLink(ticker)] >>] }

NoSearch == [k |-> "none"]

get_10k_report_text(ticker, response) ==
    IF response.k = "raise"
    THEN <<Str(CouldNotFetchMessage(response.e)), None>>
    ELSE IF response.filings = <<>>
    THEN <<Str(NoFilingsMessage), None>>
    ELSE LET top == response.filings[1] IN
         IF "linkToFilingDetails" \notin DOMAIN top
         THEN <<Str(CouldNotFetchMessage("KeyError")), None>>
         ELSE IF "documentFormatFiles" \notin DOMAIN top
         THEN <<Str(CouldNotFetchMessage("KeyError")), None>>
         ELSE IF top.documentFormatFiles = <<>>
         THEN <<Str(CouldNotFetchMessage("IndexError")), None>>
         ELSE IF "documentUrl" \notin DOMAIN top.documentFormatFiles[1]
         THEN <<Str(CouldNotFetchMessage("KeyError")), None>>
         ELSE <<Str(top.linkToFilingDetails),
                Str(top.documentFormatFiles[1].documentUrl)>>

NoLookup == <<None, None>>

-----------------------------------------------------------------------------
\* Prompts and the generative model (financial_analyzer.py)

DocumentLimit == 30000

\* document_content[:30000]
Prefix(document_content) ==
    Str(SubSeq(document_content.s, 1,
               IF Len(document_content.s) < DocumentLimit
               THEN Len(document_content.s) ELSE DocumentLimit))

\* input_prompt of the three conduct_* functions
InputPrompt(document_content, is_url) ==
    IF is_url THEN [form |-> "URL", content |-> document_content]
              ELSE [form |-> "text", content |-> Prefix(document_content)]

FinancialPrompt(document_content, is_url) ==
    [task |-> "financial", input |-> InputPrompt(document_content, is_url),
     company_name |-> None, market_shock |-> None]

SwotPrompt(document_content, company_name, is_url) ==
    [task |-> "swot", input |-> InputPrompt(document_content, is_url),
     company_name |-> company_name, market_shock |-> None]

RiskPrompt(document_content, company_name, market_shock, is_url) ==
    [task |-> "risk", input |-> InputPrompt(document_content, is_url),
     company_name |-> company_name, market_shock |-> market_shock]

\* Tokens of a model response text: the two markdown fence markers,
\* whitespace, prose, an incomplete JSON text, a complete JSON document
FenceJson == [tok |-> "fence-json"]

Fence == [tok |-> "fence"]

Ws == [tok |-> "whitespace"]

Prose == [tok |-> "Sorry, I cannot process this request."]

Truncated == [tok |-> "truncated-json"]

Json(v) == [tok |-> "json", v |-> v]

\* A JSON document the model wrote in answer to a prompt.  Field "of" records
\* the prompt the content was generated from.
Answer(v, prompt) ==
    IF v.t = "dict" THEN [t |-> "dict", m |-> v.m, of |-> prompt]
                    ELSE [t |-> "list", items |-> v.items, of |-> prompt]

Leaf(s) == Str(<<s>>)

Scenario == Dict([scenario |-> Leaf("outcome"), impact |-> Leaf("-5% revenue"),
                  mitigation |-> Leaf("action")])

\* The example object embedded in each prompt
ExampleJson(task) ==
    CASE task = "financial" ->
           Dict([revenue_analysis |-> Dict([current_year_revenue |-> Leaf("100B"),
                                            previous_year_revenue |-> Leaf("90B"),
                                            growth_rate |-> Leaf("11.1%")]),
                 profitability |-> Dict([net_income |-> Leaf("20B"),
                                         net_margin |-> Leaf("20%")]),
                 cost_structure |-> Dict("R&D" :> Leaf("15%") @@ "SG&A" :> Leaf("25%"))])
      [] task = "swot" ->
           Dict([strengths |-> List(<<Leaf("brand")>>),
                 weaknesses |-> List(<<Leaf("dependence")>>),
                 opportunities |-> List(<<Leaf("cloud")>>),
                 threats |-> List(<<Leaf("competition")>>)])
      [] task = "risk" ->
           Dict([relevant_risk |-> Leaf("supply chain"), best_case |-> Scenario,
                 likely_case |-> Scenario, worst_case |-> Scenario])

\* An object that lacks required top-level keys of its task
PartialJson(task) ==
    CASE task = "financial" ->
           Dict([revenue_analysis |-> Dict([current_year_revenue |-> Leaf("100B")])])
      [] task = "swot" ->
           Dict([strengths |-> List(<<Leaf("brand")>>)])
      [] task = "risk" ->
           Dict([relevant_risk |-> Leaf("supply chain")])

\* An object whose required keys are present but not of the example shape
MisshapenJson(task) ==
    CASE task = "financial" ->
           Dict([revenue_analysis |-> Leaf("100B"), profitability |-> Leaf("20B")])
      [] task = "swot" ->
           Dict([strengths |-> Number(3), weaknesses |-> Number(3),
                 opportunities |-> Number(3), threats |-> Number(3)])
      [] task = "risk" ->
           Dict([relevant_risk |-> Leaf("supply chain"), best_case |-> Leaf("none"),
                 likely_case |-> Leaf("none"), worst_case |-> Leaf("none")])

\* response.text of model.generate_content(prompt): the texts the model can
\* answer with (fenced or bare JSON, incomplete objects, an array, prose
\* before the JSON, truncated JSON)
ResponseTexts(prompt) ==
    LET full == Json(Answer(ExampleJson(prompt.task), prompt))
        partial == Json(Answer(PartialJson(prompt.task), prompt))
        misshapen == Json(Answer(MisshapenJson(prompt.task), prompt))
        array == Json(Answer(EmptyList, prompt))
    IN { <<FenceJson, Ws, full, Ws, Fence>>,
         <<Fence, Ws, partial, Ws, Fence, Ws>>,
         <<misshapen>>,
         <<Ws, array, Ws>>,
         <<Prose, Ws, full>>,
         <<FenceJson, Ws, Truncated>> }

\* Outcome of one model call: the call raises, or returns a text
generate_content(prompt) ==
    {[k |-> "raise"]} \cup {[k |-> "text", text |-> Str(s)] : s \in ResponseTexts(prompt)}

NoCall == [k |-> "none"]

\* The three analysis functions: build the prompt, call the model, return
\* response.text (or let the call raise)
conduct_financial_analysis(document_content, is_url) ==
    generate_content(FinancialPrompt(document_content, is_url))

conduct_swot_analysis(document_content, company_name, is_url) ==
    generate_content(SwotPrompt(document_content, company_name, is_url))

conduct_risk_simulation(document_content, company_name, market_shock, is_url) ==
    generate_content(RiskPrompt(document_content, company_name, market_shock, is_url))

-----------------------------------------------------------------------------
\* Parsing of the model output (app.py:152, 207, 234)

RECURSIVE lstrip(_)
lstrip(s) == IF s # <<>> /\ s[1] = Ws THEN lstrip(Tail(s)) ELSE s

RECURSIVE rstrip(_)
rstrip(s) == IF s # <<>> /\ s[Len(s)] = Ws THEN rstrip(SubSeq(s, 1, Len(s) - 1)) ELSE s

\* str.strip()
strip(s) == rstrip(lstrip(s))

\* str.replace(old, "")
replace(s, old) == SelectSeq(s, LAMBDA c : c # old)

\* json.loads: one JSON document, surrounded by optional whitespace
json_loads(s) ==
    LET body == strip(s) IN
    IF Len(body) = 1 /\ body[1].tok = "json"
    THEN [ok |-> TRUE, v |-> body[1].v]
    ELSE [ok |-> FALSE, v |-> None]

\* json.loads of the stripped text with both fence markers removed
ParseModelJson(json_str) == json_loads(replace(replace(strip(json_str.s), FenceJson), Fence))

-----------------------------------------------------------------------------
\* Numeric normalizer (app.py:82-99)

MaxLen == 3

Digits == {"0", "1"}

Chars == Digits \cup {".", "$", ",", "%", "b", "B", "m", "M"}

RECURSIVE StringsUpTo(_)
StringsUpTo(n) ==
    IF n = 0 THEN {<<>>}
    ELSE LET shorter == StringsUpTo(n - 1)
         IN shorter \cup {Append(s, c) : s \in {x \in shorter : Len(x) = n - 1}, c \in Chars}

\* Arguments the charts pass: display strings, numbers, or a missing field
Arguments == {Str(s) : s \in StringsUpTo(MaxLen)} \cup {Number(42), None}

\* A float as digits * 10^exponent, without trailing zeros in digits
RECURSIVE Float(_, _)
Float(digits, exponent) ==
    IF digits = 0 THEN [t |-> "float", digits |-> 0, exponent |-> 0]
    ELSE IF digits % 10 = 0 THEN Float(digits \div 10, exponent + 1)
    ELSE [t |-> "float", digits |-> digits, exponent |-> exponent]

RECURSIVE Log10(_)
Log10(k) == IF k < 10 THEN 0 ELSE 1 + Log10(k \div 10)

\* float * multiplier, the multiplier a power of ten
Times(f, multiplier) == Float(f.digits, f.exponent + Log10(multiplier))

\* str.lower()
lower(s) == [i \in DOMAIN s |-> CASE s[i] = "B" -> "b" [] s[i] = "M" -> "m" [] OTHER -> s[i]]

\* str.replace(old, "") on characters
remove(s, old) == SelectSeq(s, LAMBDA c : c # old)

RECURSIVE DigitsValue(_)
DigitsValue(s) ==
    IF s = <<>> THEN 0
    ELSE 10 * DigitsValue(SubSeq(s, 1, Len(s) - 1)) + (IF s[Len(s)] = "1" THEN 1 ELSE 0)

\* float(s) accepts s: digits with at most one point and at least one digit
IsFloatLiteral(s) ==
    /\ \A i \in DOMAIN s : s[i] \in Digits \cup {"."}
    /\ Cardinality({i \in DOMAIN s : s[i] = "."}) <= 1
    /\ \E i \in DOMAIN s : s[i] \in Digits

\* float(s) of an accepted s
to_float(s) ==
    LET point == IF \E i \in DOMAIN s : s[i] = "."
                 THEN CHOOSE i \in DOMAIN s : s[i] = "." ELSE Len(s) + 1
    IN Float(DigitsValue(remove(s, ".")), 0 - (IF point > Len(s) THEN 0 ELSE Len(s) - point))

\* The normalizer with the second test an if, not an elif: both letters removed
parse_financial_value_if(v) ==
    IF v.t \in {"int", "float"} THEN v
    ELSE IF v.t # "str" THEN Number(0)
    ELSE LET cleaned == remove(remove(remove(lower(v.s), "$"), ","), "%")
             has_b == \E i \in DOMAIN cleaned : cleaned[i] = "b"
             has_m == \E i \in DOMAIN cleaned : cleaned[i] = "m"
             multiplier == IF has_m THEN 1000000 ELSE IF has_b THEN 1000000000 ELSE 1
             remainder == remove(remove(cleaned, "b"), "m")
         IN IF IsFloatLiteral(remainder) THEN Times(to_float(remainder), multiplier)
            ELSE Number(0)

parse_financial_value(v) ==
    IF v.t \in {"int", "float"} THEN v
    ELSE IF v.t # "str" THEN Number(0)
    ELSE LET cleaned == remove(remove(remove(lower(v.s), "$"), ","), "%")
             has_b == \E i \in DOMAIN cleaned : cleaned[i] = "b"
             has_m == \E i \in DOMAIN cleaned : cleaned[i] = "m"
             multiplier == IF has_b THEN 1000000000 ELSE IF has_m THEN 1000000 ELSE 1
             remainder == IF has_b THEN remove(cleaned, "b")
                          ELSE IF has_m THEN remove(cleaned, "m") ELSE cleaned
         IN IF IsFloatLiteral(remainder) THEN Times(to_float(remainder), multiplier)
            ELSE Number(0)

Pending == [t |-> "pending"]

-----------------------------------------------------------------------------
\* One script run of app.py

Shocks == {"", "rates rise"}

CouldNotFetch == <<"Could", "not", "fetch">>

DecodeError(what) == Str(<<"Could", "not", "decode", what, "from", "AI.">>)

\* The handler without its reset (line 127 dropped)
Sidebar_NoReset(data, pressed, ticker, response) ==
    IF pressed # "Run Full Analysis"
    THEN [data |-> data, discarded |-> {}, lookup |-> NoLookup, shown |-> {},
          errors |-> {}]
    ELSE LET found == get_10k_report_text(ticker, response)
             filing_url == found[1]
         IN IF Contains(CouldNotFetch, filing_url.s)
            THEN [data |-> data, discarded |-> DOMAIN data, lookup |-> found,
                  shown |-> {}, errors |-> {filing_url}]
            ELSE [data |-> Put(Put(data, "filing_url", filing_url),
                               "company_name", Str(<<ticker>>)),
                  discarded |-> DOMAIN data, lookup |-> found,
                  shown |-> {"Report found"}, errors |-> {}]

\* Sidebar block: the "Run Full Analysis" handler
Sidebar(data, pressed, ticker, response) ==
    IF pressed # "Run Full Analysis"
    THEN [data |-> data, discarded |-> {}, lookup |-> NoLookup, shown |-> {},
          errors |-> {}]
    ELSE LET reset == <<>>
             found == get_10k_report_text(ticker, response)
             filing_url == found[1]
         IN IF Contains(CouldNotFetch, filing_url.s)
            THEN [data |-> reset, discarded |-> DOMAIN data, lookup |-> found,
                  shown |-> {}, errors |-> {filing_url}]
            ELSE [data |-> Put(Put(reset, "filing_url", filing_url),
                               "company_name", Str(<<ticker>>)),
                  discarded |-> DOMAIN data, lookup |-> found,
                  shown |-> {"Report found"}, errors |-> {}]

\* The state a run carries from one tab to the next
Raise(r, exc, at) == [r EXCEPT !.raised = Exception(exc, at)]

Show(r, what) == [r EXCEPT !.shown = @ \cup {what}]

\* try: analysis_data[key] = json.loads(...) except JSONDecodeError: st.error; st.code
Store(r, key, prompt, outcome, what, at) ==
    LET called == [r EXCEPT !.calls = Append(@, prompt)] IN
    IF outcome.k = "raise"
    THEN Raise(called, "UpstreamError", at)
    ELSE LET parsed == ParseModelJson(outcome.text) IN
         IF parsed.ok
         THEN [called EXCEPT !.data = Put(@, key, parsed.v)]
         ELSE [called EXCEPT !.errors = @ \cup {DecodeError(what)},
                             !.shown = @ \cup {"raw " \o what}]

\* Display of the Financial Snapshot tab
ShowFinancials(r) ==
    LET data == r.data["financials"] IN
    IF ~IsDict(data) THEN Raise(r, "AttributeError", "tab1")
    ELSE LET rev_data == Get(data, "revenue_analysis", EmptyDict)
             profit_data == Get(data, "profitability", EmptyDict)
             cost_data == Get(data, "cost_structure", EmptyDict)
         IN IF ~IsDict(rev_data) \/ ~IsDict(profit_data)
            THEN Raise(r, "AttributeError", "tab1")
            ELSE LET metrics == Show(r, "financials")
                     chart1 == IF "previous_year_revenue" \in DOMAIN rev_data.m
                               THEN Show(metrics, "performance chart")
                               ELSE Show(metrics, "no comparison")
                 IN IF ~Truthy(cost_data) THEN Show(chart1, "no cost structure")
                    ELSE IF ~IsDict(cost_data) THEN Raise(chart1, "AttributeError", "tab1")
                    ELSE Show(chart1, "cost chart")

Tab1(r, url, outcome) ==
    IF r.raised # NoException THEN r
    ELSE LET stored == IF "financials" \notin DOMAIN r.data
                       THEN Store(r, "financials", FinancialPrompt(url, TRUE), outcome,
                                  "financial analysis", "tab1")
                       ELSE r
         IN IF stored.raised # NoException THEN stored
            ELSE IF "financials" \in DOMAIN stored.data THEN ShowFinancials(stored)
            ELSE stored

Tab1Outcomes(r, url) ==
    IF r.raised = NoException /\ "financials" \notin DOMAIN r.data
    THEN conduct_financial_analysis(url, TRUE) ELSE {NoCall}

\* Display of the SWOT tab
ShowSwot(r) ==
    LET swot == r.data["swot"] IN
    IF ~IsDict(swot) THEN Raise(r, "AttributeError", "tab2")
    ELSE IF \E q \in {"strengths", "weaknesses", "opportunities", "threats"} :
                ~Iterable(Get(swot, q, EmptyList))
    THEN Raise(r, "TypeError", "tab2")
    ELSE Show(r, "swot")

Tab2(r, url, company, outcome) ==
    IF r.raised # NoException THEN r
    ELSE LET stored == IF "swot" \notin DOMAIN r.data
                       THEN Store(r, "swot", SwotPrompt(url, company, TRUE), outcome,
                                  "SWOT analysis", "tab2")
                       ELSE r
         IN IF stored.raised # NoException THEN stored
            ELSE IF "swot" \in DOMAIN stored.data THEN ShowSwot(stored)
            ELSE stored

Tab2Outcomes(r, url, company) ==
    IF r.raised = NoException /\ "swot" \notin DOMAIN r.data
    THEN conduct_swot_analysis(url, company, TRUE) ELSE {NoCall}

\* Display of the Risk Simulation tab
ShowSimulation(r) ==
    LET sim == r.data["simulation"] IN
    IF ~IsDict(sim) THEN Raise(r, "AttributeError", "tab3")
    ELSE IF \E c \in {"best_case", "likely_case", "worst_case"} :
                ~IsDict(Get(sim, c, EmptyDict))
    THEN Raise(r, "AttributeError", "tab3")
    ELSE Show(r, "simulation")

Tab3(r, url, company, market_shock, pressed, outcome) ==
    IF r.raised # NoException THEN r
    ELSE LET widgets == Show(r, "shock_input")
             stored == IF pressed = "Simulate Impact"
                       THEN Store(widgets, "simulation",
                                  RiskPrompt(url, company, Str(<<market_shock>>), TRUE),
                                  outcome, "simulation", "tab3")
                       ELSE widgets
         IN IF stored.raised # NoException THEN stored
            ELSE IF "simulation" \in DOMAIN stored.data THEN ShowSimulation(stored)
            ELSE stored

Tab3Outcomes(r, url, company, market_shock, pressed) ==
    IF r.raised = NoException /\ pressed = "Simulate Impact"
    THEN conduct_risk_simulation(url, company, Str(<<market_shock>>), TRUE)
    ELSE {NoCall}

\* What a finished run leaves behind
Finish(r, ticker, market_shock, response, sidebar) ==
    /\ analysis_data' = r.data
    /\ primary_ticker' = ticker
    /\ shock_input' = market_shock
    /\ filings' = response
    /\ lookup' = sidebar.lookup
    /\ discarded' = sidebar.discarded
    /\ calls' = r.calls
    /\ shown' = r.shown
    /\ errors' = r.errors
    /\ raised' = r.raised
    /\ UNCHANGED <<value_str, result>>

\* The script from the sidebar to the last tab (app.py:122-259)
Run(pressed, ticker, market_shock) ==
    \E response \in (IF pressed = "Run Full Analysis"
                     THEN SearchResponses(ticker) ELSE {NoSearch}) :
    \E sidebar \in {Sidebar(analysis_data, pressed, ticker, response)} :
      LET r0 == [data |-> sidebar.data, calls |-> <<>>, shown |-> sidebar.shown,
                 errors |-> sidebar.errors, raised |-> NoException]
      IN IF "filing_url" \notin DOMAIN r0.data
         THEN Finish(r0, ticker, market_shock, response, sidebar)
         ELSE LET company == r0.data["company_name"]
                  url == r0.data["filing_url"]
              IN \E o1 \in Tab1Outcomes(r0, url) :
                 \E r1 \in {Tab1(Show(r0, "dashboard"), url, o1)} :
                 \E o2 \in Tab2Outcomes(r1, url, company) :
                 \E r2 \in {Tab2(r1, url, company, o2)} :
                 \E o3 \in Tab3Outcomes(r2, url, company, market_shock, pressed) :
                 \E r3 \in {Tab3(r2, url, company, market_shock, pressed, o3)} :
                    Finish(r3, ticker, market_shock, response, sidebar)

-----------------------------------------------------------------------------
\* User interactions; each one makes Streamlit run the script once

FreshNormalizer == value_str = None /\ result = Pending

Init ==
    /\ analysis_data = <<>>
    /\ primary_ticker = "MSFT"
    /\ shock_input = ""
    /\ filings = NoSearch
    /\ lookup = NoLookup
    /\ discarded = {}
    /\ calls = <<>>
    /\ shown = {}
    /\ errors = {}
    /\ raised = NoException
    /\ FreshNormalizer

Rerun == Run("rerun", primary_ticker, shock_input)

EditTicker == \E ticker \in Tickers \ {primary_ticker} : Run("ticker", ticker, shock_input)

EditShock ==
    /\ "shock_input" \in shown
    /\ \E market_shock \in Shocks \ {shock_input} :
          Run("shock", primary_ticker, market_shock)

RunFullAnalysis == Run("Run Full Analysis", primary_ticker, shock_input)

SimulateImpact ==
    /\ "shock_input" \in shown
    /\ Run("Simulate Impact", primary_ticker, shock_input)

Next == Rerun \/ EditTicker \/ EditShock \/ RunFullAnalysis \/ SimulateImpact

Spec == Init /\ [][Next]_vars

\* The normalizer on its own: every argument, one call
InitNormalizer ==
    /\ analysis_data = <<>>
    /\ primary_ticker = "MSFT"
    /\ shock_input = ""
    /\ filings = NoSearch
    /\ lookup = NoLookup
    /\ discarded = {}
    /\ calls = <<>>
    /\ shown = {}
    /\ errors = {}
    /\ raised = NoException
    /\ value_str \in Arguments
    /\ result = Pending

Normalize ==
    /\ result = Pending
    /\ result' = parse_financial_value(value_str)
    /\ UNCHANGED <<appVars, value_str>>

NextNormalizer == Normalize

SpecNormalizer == InitNormalizer /\ [][NextNormalizer]_vars

-----------------------------------------------------------------------------
\* Properties

Tasks == {"financial", "swot", "risk"}

\* Session key under which the result of a task is stored
KeyOf(task) ==
    CASE task = "financial" -> "financials" [] task = "swot" -> "swot"
      [] task = "risk" -> "simulation"

\* Name of a task in its decode error message
WhatOf(task) ==
    CASE task = "financial" -> "financial analysis" [] task = "swot" -> "SWOT analysis"
      [] task = "risk" -> "simulation"

\* Required top-level keys of a task's record (ResponseParser, step 4)
RequiredKeys(task) ==
    CASE task = "financial" -> {"revenue_analysis", "profitability"}
      [] task = "swot" -> {"strengths", "weaknesses", "opportunities", "threats"}
      [] task = "risk" -> {"relevant_risk", "best_case", "likely_case", "worst_case"}

\* The value is a record of the example's shape for its task
WellFormed(task, v) == v = Answer(ExampleJson(task), v.of)

Cached(task) == KeyOf(task) \in DOMAIN analysis_data

Called(task, sent) == \E i \in DOMAIN sent : sent[i].task = task

DashboardShown == "dashboard" \in shown

RanFullAnalysis == filings # NoSearch

\* The session holds the detail link of a filing that the search returned
FilingFound ==
    /\ "filing_url" \in DOMAIN analysis_data
    /\ \E ticker \in Tickers : analysis_data["filing_url"] = Str(DetailLink(ticker))

NoFilingsFound == filings.k = "ok" /\ filings.filings = <<>>

\* The top search result carries a detail link but no document link
NoDocumentLink ==
    /\ filings.k = "ok"
    /\ filings.filings # <<>>
    /\ "linkToFilingDetails" \in DOMAIN filings.filings[1]
    /\ \/ "documentFormatFiles" \notin DOMAIN filings.filings[1]
       \/ filings.filings[1].documentFormatFiles = <<>>
       \/ "documentUrl" \notin DOMAIN filings.filings[1].documentFormatFiles[1]

\* C1: when the filings search returns no filing, the run stores no filing
\* reference, shows no dashboard and calls the model for nothing.
C1_NotFoundStoresNothing ==
    NoFilingsFound =>
        /\ "filing_url" \notin DOMAIN analysis_data
        /\ ~DashboardShown
        /\ calls = <<>>

\* C2: within a session (its filing found), once a result is cached for a
\* task and its parameters, a later request for the same analysis calls the
\* model for that task no more, for each of the three tasks.
C2_CachedNeverCalledAgain ==
    [][\A task \in Tasks :
          ( /\ FilingFound
            /\ Cached(task)
            /\ WellFormed(task, analysis_data[KeyOf(task)])
            /\ ~RanFullAnalysis'
            /\ task = "risk" =>
                  analysis_data["simulation"].of.market_shock = Str(<<shock_input'>>) )
          => ~Called(task, calls')]_vars

\* C3: a run of "Run Full Analysis" keeps nothing computed before it: every
\* analysis result in the session after the run was stored from a model call
\* of this run, the filing reference is the one this run looked up, and a
\* failed lookup leaves the session empty.
C3_RunFullAnalysisResets ==
    RanFullAnalysis =>
        /\ \A task \in Tasks :
              Cached(task) => \E i \in DOMAIN calls :
                                 /\ calls[i].task = task
                                 /\ analysis_data[KeyOf(task)].of = calls[i]
        /\ "filing_url" \in DOMAIN analysis_data =>
              /\ analysis_data["filing_url"] = lookup[1]
              /\ analysis_data["company_name"] = Str(<<primary_ticker>>)
        /\ "filing_url" \notin DOMAIN analysis_data => analysis_data = <<>>

\* C3 witness: a full analysis was run on a session that held a filing
\* reference and all three results, and the new run has stored its own.
C3_Witness ==
    /\ RanFullAnalysis
    /\ {"filing_url", "financials", "swot", "simulation"} \subseteq discarded
    /\ Cached("financial")
    /\ "simulation" \notin DOMAIN analysis_data

\* C4: whatever text the model returns about a filing that was found, a run
\* ends without an error other than the documented failures (no
\* AttributeError or TypeError), in the run that parses the text and in
\* every later one.
C4_OnlyDocumentedFailures == FilingFound => raised.exc \in {"none", "UpstreamError"}

\* C5: every record cached for a task (its filing found) carries all
\* required top-level keys of that task.
C5_CachedRecordsHaveRequiredKeys ==
    \A task \in Tasks :
        (FilingFound /\ Cached(task) /\ IsDict(analysis_data[KeyOf(task)])) =>
            RequiredKeys(task) \subseteq DOMAIN analysis_data[KeyOf(task)].m

\* C6: after an extraction (its filing found) whose output cannot be parsed,
\* a failure is recorded under the key and the next run of the same session
\* does not call the model again for it.
C6_FailureCachedNoRetry ==
    [][\A task \in {"financial", "swot"} :
          (FilingFound /\ DecodeError(WhatOf(task)) \in errors /\ ~RanFullAnalysis')
          => (Cached(task) /\ ~Called(task, calls'))]_vars

SwotFailed ==
    \/ raised = Exception("UpstreamError", "tab2")
    \/ DecodeError("SWOT analysis") \in errors

\* C7: a run (its filing found) in which the SWOT extraction fails still
\* displays the cached financial record and the cached simulation record.
C7_SwotFailureBlocksNothing ==
    (FilingFound /\ SwotFailed) =>
        \A task \in {"financial", "risk"} :
            (Cached(task) /\ WellFormed(task, analysis_data[KeyOf(task)]))
            => KeyOf(task) \in shown

\* C8: a top result with a detail link and no document link still yields a
\* reference (detail link, no document link), which is stored, and the
\* dashboard is shown.
C8_MissingDocumentLinkTolerated ==
    NoDocumentLink =>
        /\ lookup = <<Str(filings.filings[1].linkToFilingDetails), None>>
        /\ "filing_url" \in DOMAIN analysis_data
        /\ DashboardShown

\* C9: a simulation record displayed (its filing found) while the
\* description field holds D was computed from a model call made with
\* description D for the company of the session.
C9_SimulationMatchesDescription ==
    (FilingFound /\ "simulation" \in shown) =>
        /\ analysis_data["simulation"].of.market_shock = Str(<<shock_input>>)
        /\ analysis_data["simulation"].of.company_name = analysis_data["company_name"]

\* The string of a normalizer argument, suffix letters and symbols removed
Stem(s) == remove(remove(remove(remove(remove(lower(s), "$"), ","), "%"), "b"), "m")

HasBothSuffixes(v) ==
    /\ v.t = "str"
    /\ \E i \in DOMAIN v.s : v.s[i] \in {"b", "B"}
    /\ \E i \in DOMAIN v.s : v.s[i] \in {"m", "M"}

\* C10 as stated: a string with both suffix letters around a numeric
\* remainder normalizes to the remainder times 10^9.
C10_BothSuffixesGiveBillions ==
    (result # Pending /\ HasBothSuffixes(value_str) /\ IsFloatLiteral(Stem(value_str.s)))
    => result = Times(to_float(Stem(value_str.s)), 1000000000)

\* C10 amended: a string with both suffix letters takes the billions branch
\* only; the letter m stays in the remainder, which is then no number, and
\* the result is the fallback 0.
C10_BothSuffixesFallBack ==
    (result # Pending /\ HasBothSuffixes(value_str)) => result = Number(0)

\* C10 witness: the normalizer has returned for a string with both suffix
\* letters around a numeric remainder.
C10_Witness ==
    /\ result # Pending
    /\ HasBothSuffixes(value_str)
    /\ IsFloatLiteral(Stem(value_str.s))

====
